---- MODULE Spec2Model ----
(***************************************************************************)
(* Model of S3/S3Uri.py: the S3Uri dispatcher, its four variant classes    *)
(* (S3UriS3, S3UriS3FS, S3UriFile, S3UriCloudFront), the HTTP(S)-URL       *)
(* converter and the public-URL / host-name helpers.                       *)
(*                                                                         *)
(* A Python string is a sequence of one-character strings.  The regular    *)
(* expressions of the source are translated construct by construct:        *)
(* a negated class followed by a star is a maximal run of characters       *)
(* outside the class, a dot-star group is the rest up to (not including)   *)
(* the first line break, re.IGNORECASE compares the lower-cased character  *)
(* with the lower-case literal.                                            *)
(***************************************************************************)
EXTENDS Integers, Sequences, FiniteSets, TLC

VARIABLES string, os_sep, subclasses, instance, retval, pc, klass, Config

vars == <<string, os_sep, subclasses, instance, retval, pc, klass, Config>>

(***************************************************************************)
(* Bounds of the input sets.                                               *)
(***************************************************************************)
MaxBody == 3
MaxPath == 3

(***************************************************************************)
(* Characters and string helpers.                                          *)
(***************************************************************************)
NL == "\n"

UpperLetters == <<"A","B","C","D","E","F","G","H","I","J","K","L","M",
                  "N","O","P","Q","R","S","T","U","V","W","X","Y","Z">>

LowerLetters == <<"a","b","c","d","e","f","g","h","i","j","k","l","m",
                  "n","o","p","q","r","s","t","u","v","w","x","y","z">>

Digits == {"0","1","2","3","4","5","6","7","8","9"}

\* the class \w of the re module
WordChars == {UpperLetters[i] : i \in 1..26} \cup {LowerLetters[i] : i \in 1..26}
             \cup Digits \cup {"_"}

\* str.lower() on one character
Lower(c) == IF \E i \in 1..26 : UpperLetters[i] = c
            THEN LowerLetters[CHOOSE i \in 1..26 : UpperLetters[i] = c]
            ELSE c

\* str.lower()
LowerStr(s) == [i \in 1..Len(s) |-> Lower(s[i])]

Take(s, n) == SubSeq(s, 1, n)

Drop(s, n) == SubSeq(s, n + 1, Len(s))

\* StartsWithCI with the re.IGNORECASE flag forgotten
StartsWithCI_CaseSensitive(s, lit) == /\ Len(s) >= Len(lit)
                                      /\ Take(s, Len(lit)) = lit

\* a lower-case literal at the start of s under re.IGNORECASE
StartsWithCI(s, lit) == /\ Len(s) >= Len(lit)
                        /\ \A i \in 1..Len(lit) : Lower(s[i]) = lit[i]

\* a literal at the start of s, case-sensitive
StartsWith(s, lit) == /\ Len(s) >= Len(lit)
                      /\ Take(s, Len(lit)) = lit

EndsWith(s, lit) == /\ Len(s) >= Len(lit)
                    /\ Drop(s, Len(s) - Len(lit)) = lit

\* length of the greedy match of [C]* at the start of s
SpanIn(s, C) == CHOOSE n \in 0..Len(s) :
                   /\ \A i \in 1..n : s[i] \in C
                   /\ (n = Len(s) \/ s[n + 1] \notin C)

\* length of the greedy match of [^Stop]* at the start of s
SpanNotIn(s, Stop) == CHOOSE n \in 0..Len(s) :
                         /\ \A i \in 1..n : s[i] \notin Stop
                         /\ (n = Len(s) \/ s[n + 1] \in Stop)

\* the dot-star group matched at the start of s: the dot does not match a line break
DotStar(s) == Take(s, SpanNotIn(s, {NL}))

\* the optional single slash at the start of s, removed
SkipOneSlash(s) == IF s # <<>> /\ s[1] = "/" THEN Tail(s) ELSE s

RECURSIVE Split(_, _)
\* str.split(c) for a one-character separator c
Split(s, c) == LET n == SpanNotIn(s, {c})
               IN  IF n = Len(s) THEN <<s>>
                   ELSE <<Take(s, n)>> \o Split(Drop(s, n + 1), c)

RECURSIVE Join(_, _)
\* sep.join(list)
Join(list, sep) == IF list = <<>> THEN <<>>
                   ELSE IF Len(list) = 1 THEN list[1]
                   ELSE list[1] \o sep \o Join(Tail(list), sep)

ValueError(msg, arg) == [type |-> "ValueError", msg |-> msg, arg |-> arg]

\* an AttributeError does not carry the input of the call
AttributeError(msg) == [type |-> "AttributeError", msg |-> msg, arg |-> <<>>]

(***************************************************************************)
(* The variant classes.                                                    *)
(***************************************************************************)
\* the two groups of the common tail of the s3 and s3fs patterns (slashes,
\* non-slash label, optional slash, dot-star rest) matched against s
LabelAndRest(s) ==
    LET r1    == Drop(s, SpanIn(s, {"/"}))
        n     == SpanNotIn(r1, {"/"})
        r2    == SkipOneSlash(Drop(r1, n))
    IN  <<Take(r1, n), DotStar(r2)>>

S3UriS3_init(str) ==
    IF ~StartsWithCI(str, <<"s","3",":","/","/">>)
    THEN ValueError("not a S3 URI", str)
    ELSE LET groups == LabelAndRest(Drop(str, 5))
         IN  [type |-> "s3", bucket |-> groups[1], object |-> groups[2]]

S3UriS3FS_init(str) ==
    IF ~StartsWithCI(str, <<"s","3","f","s",":","/","/">>)
    THEN ValueError("not a S3fs URI", str)
    ELSE LET groups == LabelAndRest(Drop(str, 7))
         IN  [type |-> "s3fs", fsname |-> groups[1], path |-> Split(groups[2], "/")]

\* group 1 of the file pattern (word characters then ://): <<>> when the
\* group did not take part in the match
FileScheme(str) ==
    LET n == SpanIn(str, WordChars)
    IN  IF n >= 1 /\ StartsWith(Drop(str, n), <<":","/","/">>)
        THEN <<Take(str, n + 3)>>
        ELSE <<>>

\* S3UriFile.__init__ with the test of the scheme group forgotten
S3UriFile_init_AnyScheme(str, sep) ==
    LET g0 == FileScheme(str)
        g1 == IF g0 = <<>> THEN DotStar(str) ELSE DotStar(Drop(str, Len(g0[1])))
    IN  IF g0 = <<>>
        THEN [type |-> "file", path |-> Split(g1, sep)]
        ELSE [type |-> "file", path |-> Split(g1, "/")]

S3UriFile_init(str, sep) ==
    LET g0 == FileScheme(str)
        g1 == IF g0 = <<>> THEN DotStar(str) ELSE DotStar(Drop(str, Len(g0[1])))
    IN  IF g0 # <<>> /\ g0[1] # <<"f","i","l","e",":","/","/">>
        THEN ValueError("not a file:// URI", str)
        ELSE IF g0 = <<>>
             THEN [type |-> "file", path |-> Split(g1, sep)]
             ELSE [type |-> "file", path |-> Split(g1, "/")]

S3UriCloudFront_init(str) ==
    IF ~StartsWithCI(str, <<"c","f",":","/","/">>)
    THEN ValueError("not a CloudFront URI", str)
    ELSE LET r0 == Drop(str, 5)
             n  == SpanNotIn(r0, {"/"})
             r1 == Drop(r0, n)
             g1 == DotStar(Drop(r1, SpanIn(r1, {"/"})))
         IN  [type |-> "cf", dist_id |-> Take(r0, n),
              request_id |-> IF g1 # <<"/">> /\ g1 # <<>> THEN <<g1>> ELSE <<>>]

\* S3UriS3.uri
S3UriS3_uri(self) ==
    Join(<<<<"s","3",":","/">>, self.bucket, self.object>>, <<"/">>)

\* S3UriS3FS.path
S3UriS3FS_path(self) == Join(self.path, <<"/">>)

\* S3UriS3FS.uri
S3UriS3FS_uri(self) ==
    Join(<<<<"s","3","f","s",":","/">>, self.fsname, S3UriS3FS_path(self)>>, <<"/">>)

\* S3UriFile.uri
S3UriFile_uri(self) ==
    Join(<<<<"f","i","l","e",":","/">>>> \o self.path, <<"/">>)

\* S3UriCloudFront.uri; the test of request_id() is false for None and for
\* the empty string
S3UriCloudFront_uri(self) ==
    IF self.request_id # <<>> /\ self.request_id[1] # <<>>
    THEN <<"c","f",":","/","/">> \o self.dist_id \o <<"/">> \o self.request_id[1]
    ELSE <<"c","f",":","/","/">> \o self.dist_id

\* self.uri(), resolved on the class of self
uri(self) ==
    CASE self.type = "s3"   -> S3UriS3_uri(self)
      [] self.type = "s3fs" -> S3UriS3FS_uri(self)
      [] self.type = "file" -> S3UriFile_uri(self)
      [] self.type = "cf"   -> S3UriCloudFront_uri(self)

(***************************************************************************)
(* The dispatcher S3Uri.__new__ and its cached list of subclasses.         *)
(* subclasses[c] is the attribute _subclasses of class c: own tells        *)
(* whether c has the attribute in its own namespace (otherwise the lookup  *)
(* falls through to the base class S3Uri), val is <<>> for None and <<l>>  *)
(* for the list l.                                                         *)
(***************************************************************************)
Classes == {"S3Uri", "S3UriS3", "S3UriS3FS", "S3UriFile", "S3UriCloudFront"}

\* the classes found by iterating the module namespace; a dict iterates in
\* insertion order, which for the module is the order of the class statements
ModuleDict == <<"S3Uri", "S3UriS3", "S3UriS3FS", "S3UriFile", "S3UriCloudFront">>

issubclass(c, base) == c = base \/ base = "S3Uri"

\* the attribute lookup cls._subclasses
Lookup(reg, cls) == IF reg[cls].own THEN reg[cls].val ELSE reg["S3Uri"].val

\* "not x" for x None or a list
Falsy(v) == v = <<>> \/ v[1] = <<>>

\* the list built by the discovery loop of __new__ called on cls
Discover(cls) ==
    LET Keep(c) == issubclass(c, cls) /\ c # cls
    IN  SelectSeq(ModuleDict, Keep)

\* subclass.__init__(string) on a fresh instance of subclass
subclass_init(subclass, str, sep) ==
    CASE subclass = "S3UriS3"         -> S3UriS3_init(str)
      [] subclass = "S3UriS3FS"       -> S3UriS3FS_init(str)
      [] subclass = "S3UriFile"       -> S3UriFile_init(str, sep)
      [] subclass = "S3UriCloudFront" -> S3UriCloudFront_init(str)

RECURSIVE TrySubclasses(_, _, _)
\* the trial loop of __new__: the first subclass whose __init__ does not
\* raise ValueError, else the ValueError of the dispatcher
TrySubclasses(list, str, sep) ==
    IF list = <<>> THEN ValueError("not a recognized URI", str)
    ELSE LET inst == subclass_init(Head(list), str, sep)
         IN  IF inst.type = "ValueError"
             THEN TrySubclasses(Tail(list), str, sep)
             ELSE inst

\* the class attributes after cls.__new__ ran
NewRegistry(reg, cls) ==
    IF Falsy(Lookup(reg, cls))
    THEN [reg EXCEPT ![cls] = [own |-> TRUE, val |-> <<Discover(cls)>>]]
    ELSE reg

\* the value of the call cls(string): an instance or the exception raised
New(reg, cls, str, sep) ==
    TrySubclasses(Lookup(NewRegistry(reg, cls), cls)[1], str, sep)

(***************************************************************************)
(* S3UriS3.httpurl_to_s3uri                                                *)
(***************************************************************************)
HttpLit == <<"h","t","t","p">>

\* length of the match of the optional scheme group at the start of url
\* that leaves a non-slash character for the hostname group; 0 when the
\* group takes no part
HttpSchemeLen(url) ==
    LET Usable(n) == /\ Len(url) > n
                     /\ url[n + 1] # "/"
    IN  IF StartsWithCI(url, HttpLit \o <<"s",":","/","/">>) /\ Usable(8) THEN 8
        ELSE IF StartsWithCI(url, HttpLit \o <<":","/","/">>) /\ Usable(7) THEN 7
        ELSE 0

\* the first re.match of httpurl_to_s3uri: <<>> for None, else
\* <<hostname, object>> (groups 2 and 3)
UrlMatch(url) ==
    LET r0 == Drop(url, HttpSchemeLen(url))
        n  == SpanNotIn(r0, {"/"})
    IN  IF n = 0 THEN <<>>
        ELSE <<Take(r0, n), DotStar(SkipOneSlash(Drop(r0, n)))>>

AmazonTail == <<".","a","m","a","z","o","n","a","w","s",".","c","o","m">>

CnTail == <<".","c","n">>

DualStack == <<".","d","u","a","l","s","t","a","c","k">>

\* h with the optional line break that the dollar sign tolerates removed
BeforeDollar(h) == IF h # <<>> /\ h[Len(h)] = NL THEN Take(h, Len(h) - 1) ELSE h

NoDot(s) == \A i \in 1..Len(s) : s[i] # "."

\* m matches the three optional groups between the s3 token and the amazonaws tail:
\* a hyphen group without dots, the dualstack token, one more dot-free segment
MidMatch(m) ==
    LET a  == IF m # <<>> /\ m[1] = "-" THEN SpanNotIn(m, {"."}) ELSE 0
        OptSeg(x) == x = <<>> \/ (x[1] = "." /\ NoDot(Tail(x)))
        Rest(x) == \/ OptSeg(x)
                   \/ (StartsWith(x, DualStack) /\ OptSeg(Drop(x, Len(DualStack))))
    IN  \/ Rest(Drop(m, a))
        \/ Rest(m)

\* r (everything after group 1) matches the pattern from the s3 token to the dollar sign
HostRestMatch(r) ==
    /\ StartsWith(r, <<"s","3">>)
    /\ \/ (EndsWith(r, AmazonTail \o CnTail) /\ Len(r) >= 2 + Len(AmazonTail \o CnTail)
             /\ MidMatch(SubSeq(r, 3, Len(r) - Len(AmazonTail \o CnTail))))
       \/ (EndsWith(r, AmazonTail) /\ Len(r) >= 2 + Len(AmazonTail)
             /\ MidMatch(SubSeq(r, 3, Len(r) - Len(AmazonTail))))

\* the second re.match of httpurl_to_s3uri on the lower-cased hostname:
\* <<>> for None, else <<group 1>>, where a group that took no part is <<>>
\* (None and the empty string are both false for the test that follows)
HostMatch(hostname) ==
    LET h    == BeforeDollar(hostname)
        Cut  == {i \in 1..Len(h) : /\ h[i] = "."
                                   /\ \A j \in 1..i : h[j] # NL
                                   /\ HostRestMatch(Drop(h, i))}
    IN  IF Cut # {}
        THEN <<Take(h, CHOOSE i \in Cut : \A j \in Cut : j <= i)>>
        ELSE IF HostRestMatch(h) THEN << <<>> >>
        ELSE <<>>

\* str.rstrip('.')
RStripDot(s) == Take(s, CHOOSE n \in 0..Len(s) :
                           /\ \A i \in (n + 1)..Len(s) : s[i] = "."
                           /\ (n = 0 \/ s[n] # "."))

\* the bucket and object the converter puts into the string handed to S3Uri
BucketAndObject(group1, object) ==
    IF group1 = <<>>
    THEN IF \A i \in 1..Len(object) : object[i] # "/"
         THEN <<object, <<>> >>
         ELSE LET n == SpanNotIn(object, {"/"})
              IN  <<Take(object, n), Drop(object, n + 1)>>
    ELSE <<RStripDot(group1), object>>

\* the string handed to S3Uri at the end of httpurl_to_s3uri
ComposedUri(bo) == <<"s","3",":","/","/">> \o bo[1] \o <<"/">> \o bo[2]

\* TRUE when httpurl_to_s3uri reaches the call of S3Uri
ReachesS3Uri(url) ==
    /\ UrlMatch(url) # <<>>
    /\ HostMatch(LowerStr(UrlMatch(url)[1])) # <<>>

\* the value of S3UriS3.httpurl_to_s3uri(http_url): an instance or the exception raised
httpurl_to_s3uri(reg, http_url, sep) ==
    LET m == UrlMatch(http_url)
    IN  IF m = <<>>
        THEN AttributeError("'NoneType' object has no attribute 'groups'")
        ELSE LET hm == HostMatch(LowerStr(m[1]))
             IN  IF hm = <<>>
                 THEN ValueError("Unable to parse URL", http_url)
                 ELSE New(reg, "S3Uri", ComposedUri(BucketAndObject(hm[1], m[2])), sep)

(***************************************************************************)
(* public_url and host_name.  cfg holds what the call reads from           *)
(* Config.Config() and the verdict of check_bucket_name_dns_support for    *)
(* the bucket of the instance.                                             *)
(***************************************************************************)
Str(s) == [type |-> "str", val |-> s]

\* S3UriS3.is_dns_compatible
is_dns_compatible(self, cfg) == cfg.dns_support

\* S3Uri.public_url, inherited by S3UriS3FS, S3UriFile and S3UriCloudFront
S3Uri_public_url(self) ==
    ValueError("This S3 URI does not have Anonymous URL representation", <<>>)

\* S3UriS3.public_url with the test of public_url_use_https inverted
S3UriS3_public_url_HttpsInverted(self, cfg) ==
    LET public_url_protocol == IF cfg.public_url_use_https THEN <<"h","t","t","p">> ELSE <<"h","t","t","p","s">>
    IN  IF cfg.dns_support
        THEN [type |-> "str",
              val |-> public_url_protocol \o <<":","/","/">> \o self.bucket \o <<".">>
                      \o cfg.host_base \o <<"/">> \o self.object]
        ELSE [type |-> "str",
              val |-> public_url_protocol \o <<":","/","/">> \o cfg.host_base \o <<"/">>
                      \o self.bucket \o <<"/">> \o self.object]

\* S3UriS3.public_url
S3UriS3_public_url(self, cfg) ==
    LET public_url_protocol == IF cfg.public_url_use_https THEN <<"h","t","t","p","s">> ELSE <<"h","t","t","p">>
    IN  IF is_dns_compatible(self, cfg)
        THEN Str(public_url_protocol \o <<":","/","/">> \o self.bucket \o <<".">>
                 \o cfg.host_base \o <<"/">> \o self.object)
        ELSE Str(public_url_protocol \o <<":","/","/">> \o cfg.host_base \o <<"/">>
                 \o self.bucket \o <<"/">> \o self.object)

\* self.public_url(), resolved on the class of self
public_url(self, cfg) ==
    IF self.type = "s3" THEN S3UriS3_public_url(self, cfg) ELSE S3Uri_public_url(self)

\* S3UriS3.host_name
S3UriS3_host_name(self, cfg) ==
    IF is_dns_compatible(self, cfg)
    THEN Str(self.bucket \o <<".","s","3",".","a","m","a","z","o","n","a","w","s",".","c","o","m">>)
    ELSE Str(<<"s","3",".","a","m","a","z","o","n","a","w","s",".","c","o","m">>)

\* self.host_name(), resolved on the class of self: only S3UriS3 defines the
\* method, on the other classes the attribute lookup fails
host_name(self, cfg) ==
    IF self.type = "s3" THEN S3UriS3_host_name(self, cfg)
    ELSE AttributeError("object has no attribute 'host_name'")

(***************************************************************************)
(* Inputs.                                                                 *)
(***************************************************************************)
\* all strings over the alphabet chars of length at most n
StringsUpTo(chars, n) == UNION {[1..k -> chars] : k \in 0..n}

BodyChars == {"a", "/", "\\", NL}

SchemePrefixes == {<<>>, <<"s","3",":","/","/">>, <<"S","3",":","/","/">>, <<"s","3","f","s",":","/","/">>, <<"S","3","f","S",":","/","/">>, <<"c","f",":","/","/">>, <<"c","F",":","/","/">>,
                   <<"f","i","l","e",":","/","/">>, <<"F","I","L","E",":","/","/">>, <<"f","t","p",":","/","/">>, <<"x","s","3",":","/","/">>}

UriInputs == {p \o b : p \in SchemePrefixes, b \in StringsUpTo(BodyChars, MaxBody)}

PathChars == {"k", "/", NL}

UrlPrefixes == {<<>>, <<"h","t","t","p",":","/","/">>, <<"H","T","T","P","S",":","/","/">>}

Hosts == {<<>>,
          <<"s","3",".","a","m","a","z","o","n","a","w","s",".","c","o","m">>,
          <<"b",".","s","3",".","a","m","a","z","o","n","a","w","s",".","c","o","m">>,
          <<"B",".","S","3",".","a","m","a","z","o","n","a","w","s",".","c","o","m">>,
          <<".","s","3",".","a","m","a","z","o","n","a","w","s",".","c","o","m">>,
          <<"b",".",".","s","3",".","a","m","a","z","o","n","a","w","s",".","c","o","m">>,
          <<"s","3","-","e","u",".","a","m","a","z","o","n","a","w","s",".","c","o","m">>,
          <<"a",".","b",".","s","3","-","e","u",".","d","u","a","l","s","t","a","c","k",".","u","s",".","a","m","a","z","o","n","a","w","s",".","c","o","m",".","c","n">>,
          <<"s","3",".","e","u",".","a","m","a","z","o","n","a","w","s",".","c","o","m">>,
          <<"x","s","3",".","a","m","a","z","o","n","a","w","s",".","c","o","m">>,
          <<"s","3",".","a","m","a","z","o","n","a","w","s",".","c","o","m",":","8","0">>,
          <<"e","x","a","m","p","l","e",".","c","o","m">>,
          <<"s","3",".","s","3",".","a","m","a","z","o","n","a","w","s",".","c","o","m">>}

UrlInputs == {p \o h \o q : p \in UrlPrefixes, h \in Hosts, q \in StringsUpTo(PathChars, MaxPath)}

RegInputs == {<<"s","3",":","/","/","b","/","o">>, <<"s","3","f","s",":","/","/","f","/","p">>, <<"c","f",":","/","/","d","/","r">>, <<"/","a","/","b">>, <<"f","t","p",":","/","/","h">>,
              <<"h","t","t","p",":","/","/","b",".","s","3",".","a","m","a","z","o","n","a","w","s",".","c","o","m","/","k">>}

Seps == {"/", "\\"}

Configs == [host_base : {<<"h",".","i","o">>, <<"s","3",".","a","m","a","z","o","n","a","w","s",".","c","o","m">>},
            public_url_use_https : BOOLEAN,
            dns_support : BOOLEAN]

DefaultConfig == [host_base |-> <<"h",".","i","o">>, public_url_use_https |-> FALSE, dns_support |-> TRUE]

(***************************************************************************)
(* State machine.                                                          *)
(***************************************************************************)
NoValue == [type |-> "none"]

IsObject(x) == x.type \in {"s3", "s3fs", "file", "cf"}

\* class attributes after the module is loaded: S3Uri._subclasses = None, the
\* variant classes inherit it
InitRegistry == [c \in Classes |-> [own |-> (c = "S3Uri"), val |-> <<>>]]

InitWith(inputs) ==
    /\ string \in inputs
    /\ os_sep \in Seps
    /\ subclasses = InitRegistry
    /\ instance = NoValue
    /\ retval = NoValue
    /\ pc = "start"
    /\ klass = "none"
    /\ Config = DefaultConfig

Init == InitWith(UriInputs)

InitHttp == InitWith(UrlInputs)

InitReg == InitWith(RegInputs)

\* the call cls(string).  When __new__ returns an instance of cls, Python
\* runs __init__(string) on it once more, which stores the same fields again.
Construct(cls) ==
    /\ instance' = New(subclasses, cls, string, os_sep)
    /\ subclasses' = NewRegistry(subclasses, cls)
    /\ retval' = NoValue
    /\ pc' = "new"
    /\ klass' = cls
    /\ UNCHANGED <<string, os_sep, Config>>

\* the call S3Uri(string)
CallS3Uri == Construct("S3Uri")

\* the call S3UriS3(string), S3UriS3FS(string), S3UriFile(string) or
\* S3UriCloudFront(string)
CallVariant == \E cls \in Classes \ {"S3Uri"} : Construct(cls)

\* the call S3UriS3.httpurl_to_s3uri(string)
CallHttpUrl ==
    /\ instance' = httpurl_to_s3uri(subclasses, string, os_sep)
    /\ subclasses' = IF ReachesS3Uri(string)
                     THEN NewRegistry(subclasses, "S3Uri")
                     ELSE subclasses
    /\ retval' = NoValue
    /\ pc' = "httpurl_to_s3uri"
    /\ klass' = "S3UriS3"
    /\ UNCHANGED <<string, os_sep, Config>>

\* instance.uri()
CallUri ==
    /\ IsObject(instance)
    /\ retval' = Str(uri(instance))
    /\ pc' = "uri"
    /\ UNCHANGED <<string, os_sep, subclasses, instance, klass, Config>>

\* instance.public_url() under some configuration
CallPublicUrl ==
    /\ IsObject(instance)
    /\ \E cfg \in Configs :
          /\ Config' = cfg
          /\ retval' = public_url(instance, cfg)
    /\ pc' = "public_url"
    /\ UNCHANGED <<string, os_sep, subclasses, instance, klass>>

\* instance.host_name() under some configuration
CallHostName ==
    /\ IsObject(instance)
    /\ \E cfg \in Configs :
          /\ Config' = cfg
          /\ retval' = host_name(instance, cfg)
    /\ pc' = "host_name"
    /\ UNCHANGED <<string, os_sep, subclasses, instance, klass>>

\* the calls a client makes through the dispatcher class and the converter
Next == CallS3Uri \/ CallHttpUrl \/ CallUri \/ CallPublicUrl \/ CallHostName

\* the same with constructor calls on the variant classes themselves
NextReg == CallS3Uri \/ CallVariant \/ CallHttpUrl \/ CallUri

Spec == Init /\ [][Next]_vars

SpecHttp == InitHttp /\ [][Next]_vars

SpecReg == InitReg /\ [][NextReg]_vars

(***************************************************************************)
(* Properties.                                                             *)
(***************************************************************************)
RequiredOrder == <<"S3UriS3", "S3UriS3FS", "S3UriCloudFront", "S3UriFile">>

\* a dispatcher that tries the variant parsers in the required order
ReferenceDispatch(str, sep) ==
    LET Accepts(i) == subclass_init(RequiredOrder[i], str, sep).type # "ValueError"
        Accepting  == {i \in 1..Len(RequiredOrder) : Accepts(i)}
    IN  IF Accepting = {} THEN ValueError("not a recognized URI", str)
        ELSE subclass_init(RequiredOrder[CHOOSE i \in Accepting : \A j \in Accepting : i <= j],
                           str, sep)

DispatcherCalled == pc = "new" /\ klass = "S3Uri"

\* C1: S3Uri(s) returns what the reference dispatcher (order Object-Storage,
\* Object-Storage-Filesystem, CDN, Local-File) returns, or fails when it
\* fails; a string starting with cf:// in any letter case yields the CDN variant.
C1_DispatchMatchesReference ==
    DispatcherCalled =>
        /\ instance = ReferenceDispatch(string, os_sep)
        /\ (Len(string) >= 5 /\ LowerStr(Take(string, 5)) = <<"c","f",":","/","/">> => instance.type = "cf")

C1_Witness ==
    /\ DispatcherCalled
    /\ Len(string) > 5
    /\ Take(string, 5) = <<"c","F",":","/","/">>
    /\ instance.type = "cf"

\* C2: round trip; parsing the canonical string of a parsed URI gives the
\* same variant with the same field values, for all four variants and under
\* either host path separator.
C2_RoundTrip ==
    pc = "uri" => New(subclasses, "S3Uri", retval.val, os_sep) = instance

\* a scheme token: one or more word characters followed by ://
HasSchemeToken(s) ==
    \E n \in 1..Len(s) : /\ \A i \in 1..n : s[i] \in WordChars
                         /\ Len(s) >= n + 3
                         /\ SubSeq(s, n + 1, n + 3) = <<":","/","/">>

SchemeToken(s) == Take(s, 3 + CHOOSE n \in 1..Len(s) :
                                  /\ \A i \in 1..n : s[i] \in WordChars
                                  /\ Len(s) >= n + 3
                                  /\ SubSeq(s, n + 1, n + 3) = <<":","/","/">>)

RecognizedScheme(tok) == \/ LowerStr(tok) \in {<<"s","3",":","/","/">>, <<"s","3","f","s",":","/","/">>, <<"c","f",":","/","/">>}
                         \/ tok = <<"f","i","l","e",":","/","/">>

\* C3: S3Uri(s) fails, with the not-recognized error carrying s, exactly when s
\* begins with a scheme token that is none of s3://, s3fs://, cf:// (any letter
\* case) and is not the lower-case file://; every other string is parsed, and
\* the failure of a single variant is never what the caller sees.
C3_FailsExactlyOnForeignScheme ==
    DispatcherCalled =>
        IF HasSchemeToken(string) /\ ~RecognizedScheme(SchemeToken(string))
        THEN instance = [type |-> "ValueError", msg |-> "not a recognized URI", arg |-> string]
        ELSE IsObject(instance)

C3_Witness ==
    /\ DispatcherCalled
    /\ Len(string) >= 7
    /\ Take(string, 7) = <<"F","I","L","E",":","/","/">>
    /\ instance.type = "ValueError"
    /\ instance.arg = string

\* the hostname and the path (everything after the first slash that follows
\* the hostname) of a URL handed to the converter
UrlHostname(url) == UrlMatch(url)[1]

UrlPath(url) ==
    LET r0 == Drop(url, HttpSchemeLen(url))
    IN  SkipOneSlash(Drop(r0, SpanNotIn(r0, {"/"})))

CapturedLabel(url) == HostMatch(LowerStr(UrlHostname(url)))[1]

ConverterReturned == pc = "httpurl_to_s3uri" /\ ReachesS3Uri(string)

\* C4: for a virtual-hosted-style URL the converter returns the Object-Storage
\* URI whose bucket is the captured label, lower-cased, without its trailing
\* dot, and whose object is the path after the host's first slash, unchanged.
C4_VirtualHostedStyle ==
    ConverterReturned /\ CapturedLabel(string) # <<>> =>
        instance = [type |-> "s3",
                    bucket |-> RStripDot(CapturedLabel(string)),
                    object |-> UrlPath(string)]

\* C5: for a legacy path-style URL the converter returns the Object-Storage URI
\* whose bucket is the whole path and whose object is empty when the path has
\* no slash, and otherwise the parts of the path before and after its first slash.
C5_PathStyle ==
    ConverterReturned /\ CapturedLabel(string) = <<>> =>
        LET p == UrlPath(string)
            n == SpanNotIn(p, {"/"})
        IN  instance = IF n = Len(p)
                       THEN [type |-> "s3", bucket |-> p, object |-> <<>>]
                       ELSE [type |-> "s3", bucket |-> Take(p, n), object |-> Drop(p, n + 1)]

\* C6: the converter either returns an Object-Storage URI or fails with the
\* URL-unparseable error carrying the input, and it fails exactly when no
\* hostname matching the object-storage hostname grammar can be split off.
C6_TwoOutcomes ==
    pc = "httpurl_to_s3uri" =>
        IF ReachesS3Uri(string)
        THEN instance.type = "s3"
        ELSE instance = [type |-> "ValueError", msg |-> "Unable to parse URL", arg |-> string]

\* C7: public_url of an Object-Storage URI is scheme://bucket.host_base/object
\* for a DNS-compatible bucket and scheme://host_base/bucket/object otherwise,
\* with scheme https exactly when public_url_use_https is set, and the call
\* leaves the bucket and the object of the URI as they were.
C7_PublicUrl ==
    [][pc' = "public_url" /\ instance.type = "s3" =>
         /\ instance' = instance
         /\ retval'.type = "str"
         /\ retval'.val =
              (IF Config'.public_url_use_https THEN <<"h","t","t","p","s">> ELSE <<"h","t","t","p">>) \o <<":","/","/">>
              \o (IF Config'.dns_support
                  THEN instance.bucket \o <<".">> \o Config'.host_base
                  ELSE Config'.host_base \o <<"/">> \o instance.bucket)
              \o <<"/">> \o instance.object]_vars

C7_Witness ==
    /\ pc = "public_url"
    /\ instance.type = "s3"
    /\ instance.bucket # <<>>
    /\ instance.object # <<>>
    /\ Config.public_url_use_https
    /\ ~Config.dns_support
    /\ retval.type = "str"

\* C8: on a URI of the Object-Storage-Filesystem, Local-File or CDN variant,
\* public_url and host_name both end in the same unsupported-operation error
\* (the ValueError of S3Uri.public_url) and neither returns a string.
C8_UnsupportedOperation ==
    pc \in {"public_url", "host_name"} /\ instance.type \in {"s3fs", "file", "cf"} =>
        retval.type = "ValueError"

\* C9: for a string accepted by the CDN parser the distribution id is the run
\* of non-slash characters after cf://, the request id is never the empty
\* string, it is absent exactly when nothing but slashes follows the
\* distribution id and otherwise is the remainder after those slashes,
\* verbatim; the canonical string appends /request-id only when it is present.
C9_CloudFrontRequestId ==
    DispatcherCalled /\ instance.type = "cf" =>
        LET r0   == Drop(string, 5)
            n    == SpanNotIn(r0, {"/"})
            rest == Drop(r0, n)
            rem  == Drop(rest, SpanIn(rest, {"/"}))
        IN  /\ instance.dist_id = Take(r0, n)
            /\ instance.request_id # << <<>> >>
            /\ (instance.request_id = <<>>) <=> (rem = <<>>)
            /\ rem # <<>> => instance.request_id = <<rem>>
            /\ uri(instance) = <<"c","f",":","/","/">> \o Take(r0, n)
                               \o (IF rem = <<>> THEN <<>> ELSE <<"/">> \o rem)

\* C10: the outcome of a constructor call does not depend on the calls made
\* before it; the list of subclasses that is consulted and the value of
\* cls(s) are what they would be as the very first call of the process.
C10_HistoryIndependent ==
    pc = "new" =>
        /\ Lookup(subclasses, klass) = Lookup(NewRegistry(InitRegistry, klass), klass)
        /\ instance = New(InitRegistry, klass, string, os_sep)

====
